---- MODULE Spec2Model ----
(***************************************************************************)
(* A model of datadelve (src/datadelve/main.py): path-addressed access to  *)
(* trees (DataDelver), scoped views (ChildDelver), the flyweight           *)
(* JsonDelver and the layered ChainedDelver.                               *)
(*                                                                         *)
(* Python containers are objects with identity: a dict or a list lives in  *)
(* the heap under an object id and a tree refers to it by reference, so    *)
(* that in-place mutation (pointer.set, del, dict.update, list.extend)     *)
(* and the sharing it creates are modelled as the interpreter performs     *)
(* them.  Strings are sequences of one-character strings; a JSON pointer   *)
(* text is such a sequence too.                                            *)
(***************************************************************************)
EXTENDS Integers, Sequences, FiniteSets, TLC

VARIABLES heap, data, readonly, chain, cds, disk, links, extant, inst, last, steps

vars == <<heap, data, readonly, chain, cds, disk, links, extant, inst, last, steps>>

(***************************************************************************)
(* Bounds of the model.                                                    *)
(***************************************************************************)
MaxObj == 12
MaxSteps == 2
MaxStoreSteps == 4
MaxCds == 2
MaxLen == 4

Leaves == {1, 2, 3}
Objs == 1..MaxObj

(***************************************************************************)
(* Values.  A scalar carries its kind and payload; a container is a        *)
(* reference to a heap object.                                             *)
(***************************************************************************)
Null == [t |-> "null", v |-> 0]
Num(n) == [t |-> "num", v |-> n]
Str(s) == [t |-> "str", v |-> s]
Ref(n) == [t |-> "ref", v |-> n]
List(s) == [t |-> "list", v |-> s]
Dict(f) == [t |-> "dict", v |-> f]
EmptyMap == [k \in {} |-> Null]
Free == [t |-> "free", v |-> <<>>]

\* DataDelver._sentinel: the object() that stands for a deleted root.
Sentinel == [t |-> "sentinel", v |-> 0]

\* A caller's own default object (the tests pass `sentinel = object()`).
Dflt == [t |-> "dflt", v |-> 0]

IsDict(h, x) == x.t = "ref" /\ h[x.v].t = "dict"
IsList(h, x) == x.t = "ref" /\ h[x.v].t = "list"

\* collections.abc.Sequence: a list, and a str as well.
IsSequence(h, x) == IsList(h, x) \/ x.t = "str"

SeqLen(h, x) == IF x.t = "str" THEN Len(x.v) ELSE Len(h[x.v].v)

\* x[i] for a Sequence x and a 0-based index i < len(x).
SeqItem(h, x, i) == IF x.t = "str" THEN Str(<<x.v[i + 1]>>) ELSE h[x.v].v[i + 1]

(***************************************************************************)
(* Helpers on sequences and finite sets.                                   *)
(***************************************************************************)
RECURSIVE SetToSeq(_)
SetToSeq(S) ==
    IF S = {} THEN <<>>
    ELSE LET x == CHOOSE y \in S : TRUE IN <<x>> \o SetToSeq(S \ {x})

RemoveAt(s, i) == SubSeq(s, 1, i - 1) \o SubSeq(s, i + 1, Len(s))

MapDel(f, k) == [x \in (DOMAIN f) \ {k} |-> f[x]]

MapPut(f, k, x) == (k :> x) @@ f

(***************************************************************************)
(* The heap: allocation, materialisation of a tree, and the release of     *)
(* objects nothing refers to any more (reference counting).                *)
(***************************************************************************)
FreeObjs(h) == {n \in Objs : h[n].t = "free"}

NewObj(h) == CHOOSE n \in FreeObjs(h) : \A m \in FreeObjs(h) : n <= m

RECURSIVE Alloc(_, _)
RECURSIVE AllocSeq(_, _)
\* Build the Python object for the literal tree t: [h |-> heap, val |-> value].
Alloc(h, t) ==
    IF t.t = "list"
    THEN LET r == AllocSeq(h, t.v)
             n == NewObj(r.h)
         IN [h |-> [r.h EXCEPT ![n] = List(r.vals)], val |-> Ref(n)]
    ELSE IF t.t = "dict"
    THEN LET ks == SetToSeq(DOMAIN t.v)
             r == AllocSeq(h, [i \in 1..Len(ks) |-> t.v[ks[i]]])
             n == NewObj(r.h)
             f == [k \in DOMAIN t.v |->
                      r.vals[CHOOSE i \in 1..Len(ks) : ks[i] = k]]
         IN [h |-> [r.h EXCEPT ![n] = Dict(f)], val |-> Ref(n)]
    ELSE [h |-> h, val |-> t]

AllocSeq(h, ts) ==
    IF ts = <<>> THEN [h |-> h, vals |-> <<>>]
    ELSE LET a == Alloc(h, Head(ts))
             r == AllocSeq(a.h, Tail(ts))
         IN [h |-> r.h, vals |-> <<a.val>> \o r.vals]

RECURSIVE Size(_)
\* The number of container objects the literal tree t needs.
Size(t) ==
    IF t.t = "list"
    THEN LET RECURSIVE Sum(_)
             Sum(s) == IF s = <<>> THEN 0 ELSE Size(Head(s)) + Sum(Tail(s))
         IN 1 + Sum(t.v)
    ELSE IF t.t = "dict"
    THEN LET ks == SetToSeq(DOMAIN t.v)
             RECURSIVE SumK(_)
             SumK(s) == IF s = <<>> THEN 0 ELSE Size(t.v[Head(s)]) + SumK(Tail(s))
         IN 1 + SumK(ks)
    ELSE 0

RECURSIVE Tree(_, _)
\* The tree a value denotes (deep equality compares these).
Tree(h, x) ==
    IF x.t = "newlist" THEN List([i \in 1..Len(x.v) |-> Tree(h, x.v[i])])
    ELSE IF x.t # "ref" THEN x
    ELSE IF h[x.v].t = "list"
    THEN List([i \in 1..Len(h[x.v].v) |-> Tree(h, h[x.v].v[i])])
    ELSE Dict([k \in DOMAIN h[x.v].v |-> Tree(h, h[x.v].v[k])])

RefsOf(o) ==
    IF o.t = "list" THEN {o.v[i].v : i \in {j \in 1..Len(o.v) : o.v[j].t = "ref"}}
    ELSE IF o.t = "dict" THEN {o.v[k].v : k \in {j \in DOMAIN o.v : o.v[j].t = "ref"}}
    ELSE {}

RECURSIVE Reach(_, _)
Reach(h, S) ==
    LET T == S \cup UNION {RefsOf(h[n]) : n \in S}
    IN IF T = S THEN S ELSE Reach(h, T)

\* Objects no DataDelver reaches any more are released.
Sweep(h, d) ==
    LET live == Reach(h, {d[i].v : i \in {j \in DOMAIN d : d[j].t = "ref"}})
    IN [n \in Objs |-> IF n \in live THEN h[n] ELSE Free]

(***************************************************************************)
(* jsonpointer, the library DataDelver delegates to (main.py:8).           *)
(***************************************************************************)
Digits == {"0", "1", "2", "3", "4", "5", "6", "7", "8", "9"}

DigitVal(c) ==
    CASE c = "0" -> 0 [] c = "1" -> 1 [] c = "2" -> 2 [] c = "3" -> 3
      [] c = "4" -> 4 [] c = "5" -> 5 [] c = "6" -> 6 [] c = "7" -> 7
      [] c = "8" -> 8 [] c = "9" -> 9

RECURSIVE SplitSlash(_)
\* text.split('/')
SplitSlash(text) ==
    IF \A i \in 1..Len(text) : text[i] # "/" THEN <<text>>
    ELSE LET i == CHOOSE j \in 1..Len(text) :
                      text[j] = "/" /\ \A k \in 1..(j - 1) : text[k] # "/"
         IN <<SubSeq(text, 1, i - 1)>> \o SplitSlash(SubSeq(text, i + 1, Len(text)))

RECURSIVE Replace(_, _, _, _)
\* s.replace(a + b, c) for a two-character pattern.
Replace(s, a, b, c) ==
    IF Len(s) < 2 THEN s
    ELSE IF s[1] = a /\ s[2] = b
    THEN <<c>> \o Replace(SubSeq(s, 3, Len(s)), a, b, c)
    ELSE <<s[1]>> \o Replace(Tail(s), a, b, c)

\* jsonpointer.unescape
Unescape(s) == Replace(Replace(s, "~", "1", "/"), "~", "0", "~")

\* jsonpointer.escape
Escape(s) ==
    LET RECURSIVE Rep1(_, _, _)
        Rep1(x, a, out) ==
            IF x = <<>> THEN <<>>
            ELSE (IF x[1] = a THEN out ELSE <<x[1]>>) \o Rep1(Tail(x), a, out)
    IN Rep1(Rep1(s, "~", <<"~", "0">>), "/", <<"~", "1">>)

\* JsonPointer(text): the parts, or the exception the constructor raises.
Pointer(text) ==
    LET raw == SplitSlash(text)
    IN IF Head(raw) # <<>>
       THEN [e |-> "JsonPointerException", parts |-> <<>>]
       ELSE [e |-> "ok",
             parts |-> [i \in 1..(Len(raw) - 1) |-> Unescape(raw[i + 1])]]

\* _RE_ARRAY_INDEX.match(part), the pattern being '0|[1-9][0-9]*$'.
MatchesIndex(seg) ==
    /\ Len(seg) > 0
    /\ \/ seg[1] = "0"
       \/ /\ seg[1] \in Digits \ {"0"}
          /\ \A i \in 2..Len(seg) : seg[i] \in Digits

AllDigits(seg) == \A i \in 1..Len(seg) : seg[i] \in Digits

RECURSIVE IntOf(_)
\* int(part) of a digit string.
IntOf(seg) ==
    IF seg = <<>> THEN 0
    ELSE 10 * IntOf(SubSeq(seg, 1, Len(seg) - 1)) + DigitVal(seg[Len(seg)])

\* JsonPointer.get_part: the key to index doc with.
GetPart(h, doc, seg) ==
    IF IsDict(h, doc) THEN [e |-> "ok", k |-> seg]
    ELSE IF IsSequence(h, doc)
    THEN IF ~MatchesIndex(seg) THEN [e |-> "JsonPointerException", k |-> 0]
         ELSE IF ~AllDigits(seg) THEN [e |-> "ValueError", k |-> 0]
         ELSE [e |-> "ok", k |-> IntOf(seg)]
    ELSE [e |-> "JsonPointerException", k |-> 0]

\* JsonPointer.walk: one step down from doc.
Walk(h, doc, seg) ==
    LET p == GetPart(h, doc, seg)
    IN IF p.e # "ok" THEN [e |-> p.e, r |-> Null]
       ELSE IF IsSequence(h, doc)
       THEN IF p.k < SeqLen(h, doc)
            THEN [e |-> "ok", r |-> SeqItem(h, doc, p.k)]
            ELSE [e |-> "JsonPointerException", r |-> Null]
       ELSE IF seg \in DOMAIN h[doc.v].v
            THEN [e |-> "ok", r |-> h[doc.v].v[seg]]
            ELSE [e |-> "JsonPointerException", r |-> Null]

RECURSIVE Resolve(_, _, _, _)
\* JsonPointer.resolve(doc, default)
Resolve(h, doc, parts, default) ==
    IF parts = <<>> THEN [e |-> "ok", r |-> doc]
    ELSE LET w == Walk(h, doc, Head(parts))
         IN IF w.e = "JsonPointerException" THEN [e |-> "ok", r |-> default]
            ELSE IF w.e # "ok" THEN [e |-> w.e, r |-> Null]
            ELSE Resolve(h, w.r, Tail(parts), default)

RECURSIVE ToLast(_, _, _)
\* JsonPointer.to_last for a pointer with at least one part.
ToLast(h, doc, parts) ==
    IF Len(parts) = 1
    THEN LET p == GetPart(h, doc, parts[1])
         IN [e |-> p.e, parent |-> doc, k |-> p.k]
    ELSE LET w == Walk(h, doc, Head(parts))
         IN IF w.e # "ok" THEN [e |-> w.e, parent |-> doc, k |-> 0]
            ELSE ToLast(h, w.r, Tail(parts))

\* parent[k] = value, k as get_part returned it.
SetItem(h, parent, k, value) ==
    IF IsDict(h, parent)
    THEN [e |-> "ok", h |-> [h EXCEPT ![parent.v].v = MapPut(@, k, value)]]
    ELSE IF IsList(h, parent)
    THEN IF k < SeqLen(h, parent)
         THEN [e |-> "ok", h |-> [h EXCEPT ![parent.v].v[k + 1] = value]]
         ELSE [e |-> "IndexError", h |-> h]
    ELSE [e |-> "TypeError", h |-> h]

\* JsonPointer.set(doc, value), in place.
PointerSet(h, doc, parts, value) ==
    LET tl == ToLast(h, doc, parts)
    IN IF tl.e # "ok" THEN [e |-> tl.e, h |-> h]
       ELSE SetItem(h, tl.parent, tl.k, value)

\* del subdoc[key], key as get_part returned it.
DelItem(h, parent, k) ==
    IF IsDict(h, parent)
    THEN IF k \in DOMAIN h[parent.v].v
         THEN [e |-> "ok", h |-> [h EXCEPT ![parent.v].v = MapDel(@, k)]]
         ELSE [e |-> "KeyError", h |-> h]
    ELSE IF IsList(h, parent)
    THEN IF k < SeqLen(h, parent)
         THEN [e |-> "ok", h |-> [h EXCEPT ![parent.v].v = RemoveAt(@, k + 1)]]
         ELSE [e |-> "IndexError", h |-> h]
    ELSE [e |-> "TypeError", h |-> h]

(***************************************************************************)
(* DataDelver (main.py:105-199).  An operation's outcome is a record: e    *)
(* the exception raised ("ok" for none), h and d the heap and the          *)
(* DataDelvers' data afterwards, r the value returned.                     *)
(***************************************************************************)
\* DataDelver.get
DataDelver_get(h, d, i, path, default) ==
    IF d[i].t = "sentinel" /\ path = <<>> THEN [e |-> "ok", h |-> h, r |-> default]
    ELSE LET pointer == Pointer(path)
         IN IF pointer.e # "ok" THEN [e |-> pointer.e, h |-> h, r |-> Null]
            ELSE LET res == Resolve(h, d[i], pointer.parts, default)
                 IN [e |-> res.e, h |-> h, r |-> res.r]

\* doc[part] = value with the raw part, a str (main.py:194 and 196).
SetItemRaw(h, doc, part, value) ==
    IF IsDict(h, doc)
    THEN [e |-> "ok", h |-> [h EXCEPT ![doc.v].v = MapPut(@, part, value)]]
    ELSE [e |-> "TypeError", h |-> h]

RECURSIVE CreateParents(_, _, _, _)
\* The walk that creates the missing dicts (main.py:189-196).
CreateParents(h, doc, parts, value) ==
    IF Len(parts) = 1 THEN SetItemRaw(h, doc, parts[1], value)
    ELSE LET w == Walk(h, doc, Head(parts))
         IN IF w.e = "ok" THEN CreateParents(h, w.r, Tail(parts), value)
            ELSE IF w.e # "JsonPointerException" THEN [e |-> w.e, h |-> h]
            ELSE IF ~IsDict(h, doc) THEN [e |-> "TypeError", h |-> h]
            ELSE LET n == NewObj(h)
                     h1 == [h EXCEPT ![n] = Dict(EmptyMap),
                                     ![doc.v].v = MapPut(@, Head(parts), Ref(n))]
                 IN CreateParents(h1, Ref(n), Tail(parts), value)

\* DataDelver.set without the replacement of the whole tree at the root path.
DataDelver_set_m(h, d, i, path, value, parents) ==
    IF readonly[i] THEN [e |-> "ReadonlyError", h |-> h, d |-> d]
    ELSE IF path = <<>> THEN [e |-> "ok", h |-> h, d |-> d]
    ELSE LET pointer == Pointer(path)
         IN IF pointer.e # "ok" THEN [e |-> pointer.e, h |-> h, d |-> d]
            ELSE LET s == PointerSet(h, d[i], pointer.parts, value)
                 IN IF s.e # "JsonPointerException"
                    THEN [e |-> s.e, h |-> s.h, d |-> d]
                    ELSE IF ~parents THEN [e |-> "PathError", h |-> h, d |-> d]
                    ELSE LET c == CreateParents(h, d[i], pointer.parts, value)
                         IN [e |-> c.e, h |-> c.h, d |-> d]

\* DataDelver.set
DataDelver_set(h, d, i, path, value, parents) ==
    IF readonly[i] THEN [e |-> "ReadonlyError", h |-> h, d |-> d]
    ELSE IF path = <<>> THEN [e |-> "ok", h |-> h, d |-> [d EXCEPT ![i] = value]]
    ELSE LET pointer == Pointer(path)
         IN IF pointer.e # "ok" THEN [e |-> pointer.e, h |-> h, d |-> d]
            ELSE LET s == PointerSet(h, d[i], pointer.parts, value)
                 IN IF s.e # "JsonPointerException"
                    THEN [e |-> s.e, h |-> s.h, d |-> d]
                    ELSE IF ~parents THEN [e |-> "PathError", h |-> h, d |-> d]
                    ELSE LET c == CreateParents(h, d[i], pointer.parts, value)
                         IN [e |-> c.e, h |-> c.h, d |-> d]

\* DataDelver.delete with None as the mark of a deleted root.
DataDelver_delete_m(h, d, i, path) ==
    IF readonly[i] THEN [e |-> "ReadonlyError", h |-> h, d |-> d]
    ELSE IF path = <<>> THEN [e |-> "ok", h |-> h, d |-> [d EXCEPT ![i] = Null]]
    ELSE LET pointer == Pointer(path)
         IN IF pointer.e # "ok" THEN [e |-> pointer.e, h |-> h, d |-> d]
            ELSE LET tl == ToLast(h, d[i], pointer.parts)
                     del == IF tl.e # "ok" THEN [e |-> tl.e, h |-> h]
                            ELSE DelItem(h, tl.parent, tl.k)
                 IN IF del.e \in {"JsonPointerException", "KeyError"}
                    THEN [e |-> "PathError", h |-> h, d |-> d]
                    ELSE [e |-> del.e, h |-> del.h, d |-> d]

\* DataDelver.delete
DataDelver_delete(h, d, i, path) ==
    IF readonly[i] THEN [e |-> "ReadonlyError", h |-> h, d |-> d]
    ELSE IF path = <<>> THEN [e |-> "ok", h |-> h, d |-> [d EXCEPT ![i] = Sentinel]]
    ELSE LET pointer == Pointer(path)
         IN IF pointer.e # "ok" THEN [e |-> pointer.e, h |-> h, d |-> d]
            ELSE LET tl == ToLast(h, d[i], pointer.parts)
                     del == IF tl.e # "ok" THEN [e |-> tl.e, h |-> h]
                            ELSE DelItem(h, tl.parent, tl.k)
                 IN IF del.e \in {"JsonPointerException", "KeyError"}
                    THEN [e |-> "PathError", h |-> h, d |-> d]
                    ELSE [e |-> del.e, h |-> del.h, d |-> d]

(***************************************************************************)
(* Delver handles.  A handle names a Delver object: a DataDelver by its    *)
(* id, a ChildDelver by its fields, a ChainedDelver by its searchpath.     *)
(***************************************************************************)
Leaf(i) == [k |-> "leaf", id |-> i]

RECURSIVE RStrip(_)
\* basepath.rstrip('/')
RStrip(s) ==
    IF s # <<>> /\ s[Len(s)] = "/" THEN RStrip(SubSeq(s, 1, Len(s) - 1)) ELSE s

\* ChildDelver.__init__
ChildDelver(parent, ro, basepath) ==
    [k |-> "child", parent |-> parent, readonly |-> ro, basepath |-> RStrip(basepath)]

\* ChainedDelver.__init__ (the layers are distinct objects)
ChainedDelver(delvers) == [k |-> "chain", searchpath |-> delvers]

\* A constructor that takes any delvers.
ChainedDelver___init___m(delvers) == [e |-> "ok", chain |-> ChainedDelver(delvers)]

\* ChainedDelver(*delvers) by the caller: the id() of a DataDelver or
\* JsonDelver is its instance number; a view is an object of its own.
ChainedDelver___init__(delvers) ==
    IF \E i, j \in 1..Len(delvers) :
           /\ i < j
           /\ delvers[i].k = "leaf" /\ delvers[j].k = "leaf"
           /\ delvers[i].id = delvers[j].id
    THEN [e |-> "DuplicateInChainError", chain |-> ChainedDelver(<<>>)]
    ELSE [e |-> "ok", chain |-> ChainedDelver(delvers)]

\* cd that takes the flag asked for and forgets the view's own.
Cd_m(ref, path, ro) ==
    IF ref.k = "leaf" THEN ChildDelver(ref, ro, path)
    ELSE IF ref.k = "child"
    THEN ChildDelver(ref.parent, ro, ref.basepath \o path)
    ELSE ChildDelver(ref, ro, path)

\* DataDelver.cd, ChildDelver.cd and ChainedDelver.cd
Cd(ref, path, ro) ==
    IF ref.k = "leaf" THEN ChildDelver(ref, readonly[ref.id] \/ ro, path)
    ELSE IF ref.k = "child"
    THEN ChildDelver(ref.parent, ref.readonly \/ ro, ref.basepath \o path)
    ELSE ChildDelver(ref, ro, path)

\* getattr(layer, 'readonly', False) (main.py:442)
ReadonlyAttr(ref) ==
    IF ref.k = "leaf" THEN readonly[ref.id]
    ELSE IF ref.k = "child" THEN ref.readonly
    ELSE FALSE

(***************************************************************************)
(* The two mergers of ChainedDelver._merge, as the interpreter runs them   *)
(* on the accumulator object.  "Unmodelled" marks an outcome outside the   *)
(* model's values (a key that is no str, the order of a dict's keys).      *)
(***************************************************************************)
RECURSIVE UpdateFromItems(_, _, _)
\* dict.update(collected, iterable): each item must be a pair.
UpdateFromItems(h, c, items) ==
    IF items = <<>> THEN [e |-> "ok", h |-> h]
    ELSE LET x == Head(items)
         IN IF x.t = "str"
            THEN IF Len(x.v) # 2 THEN [e |-> "ValueError", h |-> h]
                 ELSE UpdateFromItems(
                          [h EXCEPT ![c.v].v = MapPut(@, <<x.v[1]>>, Str(<<x.v[2]>>))],
                          c, Tail(items))
            ELSE IF IsList(h, x)
            THEN IF SeqLen(h, x) # 2 THEN [e |-> "ValueError", h |-> h]
                 ELSE IF h[x.v].v[1].t = "str"
                 THEN UpdateFromItems(
                          [h EXCEPT ![c.v].v = MapPut(@, h[x.v].v[1].v, h[x.v].v[2])],
                          c, Tail(items))
                 ELSE IF h[x.v].v[1].t = "ref" THEN [e |-> "TypeError", h |-> h]
                 ELSE [e |-> "Unmodelled", h |-> h]
            ELSE IF IsDict(h, x)
            THEN IF Cardinality(DOMAIN h[x.v].v) # 2 THEN [e |-> "ValueError", h |-> h]
                 ELSE [e |-> "Unmodelled", h |-> h]
            ELSE [e |-> "TypeError", h |-> h]

\* dict.update(collected, found)
DictUpdate(h, c, f) ==
    IF IsDict(h, f)
    THEN [e |-> "ok",
          h |-> [h EXCEPT ![c.v].v =
                    [k \in (DOMAIN @) \cup DOMAIN h[f.v].v |->
                        IF k \in DOMAIN h[f.v].v THEN h[f.v].v[k] ELSE @[k]]]]
    ELSE IF IsList(h, f) THEN UpdateFromItems(h, c, h[f.v].v)
    ELSE IF f.t = "str"
    THEN IF f.v = <<>> THEN [e |-> "ok", h |-> h] ELSE [e |-> "ValueError", h |-> h]
    ELSE [e |-> "TypeError", h |-> h]

\* list.extend(collected, found)
ListExtend(h, c, f) ==
    IF IsList(h, f)
    THEN [e |-> "ok", h |-> [h EXCEPT ![c.v].v = @ \o h[f.v].v]]
    ELSE IF IsDict(h, f)
    THEN IF Cardinality(DOMAIN h[f.v].v) > 1 THEN [e |-> "Unmodelled", h |-> h]
         ELSE LET ks == SetToSeq(DOMAIN h[f.v].v)
              IN [e |-> "ok",
                  h |-> [h EXCEPT ![c.v].v = @ \o [i \in 1..Len(ks) |-> Str(ks[i])]]]
    ELSE IF f.t = "str"
    THEN [e |-> "ok",
          h |-> [h EXCEPT ![c.v].v = @ \o [i \in 1..Len(f.v) |-> Str(<<f.v[i]>>)]]]
    ELSE [e |-> "TypeError", h |-> h]

(***************************************************************************)
(* ChildDelver and ChainedDelver (main.py:202-453), with the dispatch on   *)
(* the kind of Delver a handle names.                                      *)
(***************************************************************************)
RECURSIVE Get(_, _, _, _, _, _)
RECURSIVE Set(_, _, _, _, _, _)
RECURSIVE Delete(_, _, _, _)

\* ChainedDelver._first
ChainedDelver_first(h, d, searchpath, path, default) ==
    LET RECURSIVE Loop(_)
        Loop(i) ==
            IF i = 0 THEN [e |-> "ok", h |-> h, r |-> default]
            ELSE LET found == Get(h, d, searchpath[i], path, Null, "first")
                 IN IF found.e # "ok" THEN [e |-> found.e, h |-> h, r |-> Null]
                    ELSE IF found.r.t # "null" THEN [e |-> "ok", h |-> h, r |-> found.r]
                    ELSE Loop(i - 1)
    IN Loop(Len(searchpath))

\* ChainedDelver._merge
ChainedDelver_merge(h, d, searchpath, path, default) ==
    LET RECURSIVE Loop(_, _, _)
        Loop(hh, i, collected) ==
            IF i > Len(searchpath)
            THEN [e |-> "ok", h |-> hh,
                  r |-> IF collected.t # "null" THEN collected ELSE default]
            ELSE LET found == Get(hh, d, searchpath[i], path, Null, "first")
                 IN IF found.e # "ok" THEN [e |-> found.e, h |-> hh, r |-> Null]
                    ELSE IF found.r.t = "null" THEN Loop(hh, i + 1, collected)
                    ELSE IF collected.t = "null"
                    THEN IF IsDict(hh, found.r) \/ IsList(hh, found.r)
                         THEN Loop(hh, i + 1, found.r)
                         ELSE [e |-> "MergeError", h |-> hh, r |-> Null]
                    ELSE LET m == IF IsDict(hh, collected)
                                  THEN DictUpdate(hh, collected, found.r)
                                  ELSE ListExtend(hh, collected, found.r)
                         IN IF m.e # "ok" THEN [e |-> m.e, h |-> m.h, r |-> Null]
                            ELSE Loop(m.h, i + 1, collected)
    IN Loop(h, 1, Null)

\* ChainedDelver._collect; the list it builds is the caller's alone.
ChainedDelver_collect(h, d, searchpath, path, default) ==
    LET RECURSIVE Loop(_, _)
        Loop(i, every) ==
            IF i = 0
            THEN [e |-> "ok", h |-> h,
                  r |-> IF every # <<>> THEN [t |-> "newlist", v |-> every] ELSE default]
            ELSE LET found == Get(h, d, searchpath[i], path, Null, "first")
                 IN IF found.e # "ok" THEN [e |-> found.e, h |-> h, r |-> Null]
                    ELSE IF found.r.t # "null" THEN Loop(i - 1, Append(every, found.r))
                    ELSE Loop(i - 1, every)
    IN Loop(Len(searchpath), <<>>)

\* ChainedDelver.get
ChainedDelver_get(h, d, searchpath, path, default, strategy) ==
    IF strategy = "first" THEN ChainedDelver_first(h, d, searchpath, path, default)
    ELSE IF strategy = "merge" THEN ChainedDelver_merge(h, d, searchpath, path, default)
    ELSE ChainedDelver_collect(h, d, searchpath, path, default)

\* ChainedDelver.set: `parents` is not handed on.
ChainedDelver_set(h, d, searchpath, path, value, parents) ==
    Set(h, d, searchpath[Len(searchpath)], path, value, FALSE)

\* ChainedDelver.delete
ChainedDelver_delete(h, d, searchpath, path) ==
    IF \E i \in 1..Len(searchpath) : ReadonlyAttr(searchpath[i])
    THEN [e |-> "ReadonlyError", h |-> h, d |-> d]
    ELSE LET RECURSIVE Loop(_, _, _)
             Loop(hh, dd, i) ==
                 IF i > Len(searchpath) THEN [e |-> "ok", h |-> hh, d |-> dd]
                 ELSE LET x == Delete(hh, dd, searchpath[i], path)
                      IN IF x.e \in {"ok", "PathError"} THEN Loop(x.h, x.d, i + 1)
                         ELSE x
         IN Loop(h, d, 1)

\* ChildDelver.get
ChildDelver_get(h, d, self, path, default) ==
    Get(h, d, self.parent, self.basepath \o path, default, "first")

\* ChildDelver.set: `parents` is not handed on.
ChildDelver_set(h, d, self, path, value, parents) ==
    IF self.readonly THEN [e |-> "ReadonlyError", h |-> h, d |-> d]
    ELSE Set(h, d, self.parent, self.basepath \o path, value, FALSE)

\* ChildDelver.delete
ChildDelver_delete(h, d, self, path) ==
    IF self.readonly THEN [e |-> "ReadonlyError", h |-> h, d |-> d]
    ELSE Delete(h, d, self.parent, self.basepath \o path)

\* delver.get(path, default[, strategy])
Get(h, d, ref, path, default, strategy) ==
    IF ref.k = "leaf" THEN DataDelver_get(h, d, ref.id, path, default)
    ELSE IF ref.k = "child" THEN ChildDelver_get(h, d, ref, path, default)
    ELSE ChainedDelver_get(h, d, ref.searchpath, path, default, strategy)

\* delver.set(path, value, parents)
Set(h, d, ref, path, value, parents) ==
    IF ref.k = "leaf" THEN DataDelver_set(h, d, ref.id, path, value, parents)
    ELSE IF ref.k = "child" THEN ChildDelver_set(h, d, ref, path, value, parents)
    ELSE ChainedDelver_set(h, d, ref.searchpath, path, value, parents)

\* delver.delete(path)
Delete(h, d, ref, path) ==
    IF ref.k = "leaf" THEN DataDelver_delete(h, d, ref.id, path)
    ELSE IF ref.k = "child" THEN ChildDelver_delete(h, d, ref, path)
    ELSE ChainedDelver_delete(h, d, ref.searchpath, path)

(***************************************************************************)
(* Delver.items (main.py:93-102): the (key, view) pairs of the structure   *)
(* at path.  The order of a dict's keys is not modelled: its pairs come in *)
(* an arbitrary fixed order.                                               *)
(***************************************************************************)
RECURSIVE Decimal(_)
\* f"{i}" for a natural number i.
Decimal(n) ==
    LET c == CHOOSE x \in Digits : DigitVal(x) = n % 10
    IN IF n < 10 THEN <<c>> ELSE Decimal(n \div 10) \o <<c>>

\* Delver.items
Delver_items(h, d, ref, path) ==
    LET structure == Get(h, d, ref, path, Null, "first")
    IN IF structure.e # "ok" THEN [e |-> structure.e, pairs |-> <<>>]
       ELSE IF IsSequence(h, structure.r)
       THEN [e |-> "ok",
             pairs |-> [i \in 1..SeqLen(h, structure.r) |->
                           [key |-> Num(i - 1),
                            view |-> Cd(ref, path \o <<"/">> \o Decimal(i - 1), FALSE)]]]
       ELSE IF IsDict(h, structure.r)
       THEN LET ks == SetToSeq(DOMAIN h[structure.r.v].v)
            IN [e |-> "ok",
                pairs |-> [i \in 1..Len(ks) |->
                              [key |-> Str(ks[i]),
                               view |-> Cd(ref, path \o <<"/">> \o ks[i], FALSE)]]]
       ELSE [e |-> "IterationError", pairs |-> <<>>]

(***************************************************************************)
(* The inputs the operations are exercised with.                           *)
(***************************************************************************)
K(c) == <<c>>

Obj1(k1, x1) == Dict(K(k1) :> x1)
Obj2(k1, x1, k2, x2) == Dict((K(k1) :> x1) @@ (K(k2) :> x2))
Obj3(k1, x1, k2, x2, k3, x3) == Dict((K(k1) :> x1) @@ (K(k2) :> x2) @@ (K(k3) :> x3))

P0 == <<>>
P1(a) == <<"/", a>>
P2(a, b) == <<"/", a, "/", b>>
P3(a, b, c) == <<"/", a, "/", b, "/", c>>

\* The trees a single DataDelver starts from.
ViewTrees ==
    { Obj3("d", Obj2("a", Num(1), "b", Null),
           "l", List(<<Num(1), Num(2), Num(3)>>),
           "s", Str(<<"A", "B">>)),
      Obj2("l", List(<<Obj1("a", Num(1))>>), "n", Obj1("m", Dict(EmptyMap))) }

ViewPaths ==
    { P0, P1("d"), P2("d", "a"), P2("d", "b"), P2("d", "c"), P3("d", "a", "q"),
      P1("l"), P2("l", "0"), P2("l", "2"), P2("l", "3"), P2("l", "x"),
      <<"/", "l", "/", "0", "1">>, <<"/", "l", "/", "0", "x">>,
      P3("l", "0", "a"), P2("s", "0"), P2("s", "5"),
      P3("n", "m", "k"), P3("x", "y", "z"), <<"d">> }

ViewValues == { Null, Num(7), Dict(EmptyMap), List(<<Num(8), Obj1("k", Null)>>) }

Defaults == { Dflt, Null }

\* The trees of the three layers of a chain, least specific first.
ChainTrees ==
    { << Obj2("d", Obj1("a", Str(<<"A">>)), "l", List(<<Num(1), Num(2)>>)),
         Obj2("d", Obj1("b", Str(<<"B">>)), "l", List(<<Num(3)>>)),
         Obj2("d", Obj2("a", Null, "c", Num(3)), "l", List(<<Num(4), Num(5)>>)) >>,
      << Dict(EmptyMap),
         Obj1("l", List(<<Num(5)>>)),
         Obj2("l", List(<<Num(1), Num(2)>>), "d", Null) >> }

ChainPaths == { P0, P1("d"), P2("d", "a"), P1("l"), P2("l", "0"), P2("l", "1"), P1("x") }

ChainValues == { Null, Num(7), List(<<Num(8)>>) }

Strategies == { "first", "merge", "collect" }

\* The chains under test: three leaves; a nested resolver as the most
\* specific layer; a scoped view of a leaf as a layer.
ChainShape(n) ==
    CASE n = 1 -> ChainedDelver(<<Leaf(1), Leaf(2), Leaf(3)>>)
      [] n = 2 -> ChainedDelver(<<Leaf(1), ChainedDelver(<<Leaf(2), Leaf(3)>>)>>)
      [] n = 3 -> ChainedDelver(<<Leaf(1), Cd(Leaf(2), P0, FALSE), Leaf(3)>>)

ChainShapes == {1, 2, 3}

\* Which DataDelvers were constructed readonly.
ReadonlySets == { {}, {2}, {3} }

(***************************************************************************)
(* State.  heap, data, readonly: the objects; chain: the Delver under      *)
(* test, and cds the cd calls that made it; last: the call just made       *)
(* (target 0 is the Delver under test, i > 0 the DataDelver i), its        *)
(* outcome and the trees before it.                                        *)
(***************************************************************************)
Trees(h, d) == [i \in Leaves |-> Tree(h, d[i])]

\* The record of a call: what was asked, the exception e, the result res,
\* the instance `who` a load returned, and the trees, registry and readonly
\* flags before it.
Call(op, tgt, path, val, dflt, strat, par, e, res, who) ==
    [op |-> op, tgt |-> tgt, path |-> path, val |-> val, dflt |-> dflt,
     strat |-> strat, par |-> par, e |-> e, res |-> res, who |-> who,
     pre |-> Trees(heap, data), reg |-> extant, flags |-> readonly]

EmptyHeap == [n \in Objs |-> Free]

\* The DataDelvers built over the literal trees ts[1], ts[2], ts[3].
Construct(ts) ==
    LET a1 == Alloc(EmptyHeap, ts[1])
        a2 == Alloc(a1.h, ts[2])
        a3 == Alloc(a2.h, ts[3])
    IN [h |-> a3.h, d |-> (1 :> a1.val) @@ (2 :> a2.val) @@ (3 :> a3.val)]

InitObjects(ts, ro, shape) ==
    /\ heap = Construct(ts).h
    /\ data = Construct(ts).d
    /\ readonly = [i \in Leaves |-> i \in ro]
    /\ chain = shape
    /\ disk = <<>>
    /\ links = <<>>
    /\ extant = <<>>
    /\ inst = <<>>
    /\ cds = <<>>
    /\ last = Call("none", 0, P0, Null, Null, "first", FALSE, "ok", Null, 0)
    /\ steps = MaxSteps

Room(need) == Cardinality(FreeObjs(heap)) >= need

\* delver.get(path, default[, strategy]) by the caller.
CallGet(tgt, ref, path, dflt, strat) ==
    /\ steps > 0
    /\ LET o == Get(heap, data, ref, path, dflt, strat)
       IN /\ o.e # "Unmodelled"
          /\ heap' = Sweep(o.h, data)
          /\ last' = Call("get", tgt, path, Null, dflt, strat, FALSE, o.e,
                           IF o.e = "ok" THEN Tree(o.h, o.r) ELSE Null, 0)
    /\ steps' = steps - 1
    /\ UNCHANGED <<data, readonly, chain, cds, disk, links, extant, inst>>

\* delver.set(path, value, parents) by the caller, value a fresh object.
CallSet(tgt, ref, path, value, parents) ==
    /\ steps > 0
    /\ Room(Size(value) + Len(SplitSlash(path)))
    /\ LET a == Alloc(heap, value)
           o == Set(a.h, data, ref, path, a.val, parents)
       IN /\ heap' = Sweep(o.h, o.d)
          /\ data' = o.d
          /\ last' = Call("set", tgt, path, value, Null, "first", parents, o.e, Null, 0)
    /\ steps' = steps - 1
    /\ UNCHANGED <<readonly, chain, cds, disk, links, extant, inst>>

\* delver.delete(path) by the caller.
CallDelete(tgt, ref, path) ==
    /\ steps > 0
    /\ LET o == Delete(heap, data, ref, path)
       IN /\ heap' = Sweep(o.h, o.d)
          /\ data' = o.d
          /\ last' = Call("delete", tgt, path, Null, Null, "first", FALSE, o.e, Null, 0)
    /\ steps' = steps - 1
    /\ UNCHANGED <<readonly, chain, cds, disk, links, extant, inst>>

(***************************************************************************)
(* SpecView: one DataDelver and its callers.                               *)
(***************************************************************************)
InitView ==
    \E t \in ViewTrees, ro \in { {}, {1} } :
        InitObjects(<<t, Dict(EmptyMap), Dict(EmptyMap)>>, ro,
                    ChainedDelver(<<Leaf(1)>>))

ViewGet == \E p \in ViewPaths, df \in Defaults : CallGet(1, Leaf(1), p, df, "first")

ViewSet ==
    \E p \in ViewPaths, x \in ViewValues, par \in BOOLEAN :
        CallSet(1, Leaf(1), p, x, par)

ViewDelete == \E p \in ViewPaths : CallDelete(1, Leaf(1), p)

NextView == ViewGet \/ ViewSet \/ ViewDelete

SpecView == InitView /\ [][NextView]_vars

(***************************************************************************)
(* SpecChain: a ChainedDelver over three DataDelvers; the callers use the  *)
(* chain and the layers themselves.                                        *)
(***************************************************************************)
InitChain ==
    \E ts \in ChainTrees, ro \in ReadonlySets, n \in ChainShapes :
        /\ InitObjects(ts, ro, ChainShape(n))

ChainGet ==
    \E p \in ChainPaths, s \in Strategies : CallGet(0, chain, p, Dflt, s)

ChainSet ==
    \E p \in ChainPaths, x \in ChainValues : CallSet(0, chain, p, x, FALSE)

ChainDelete == \E p \in ChainPaths : CallDelete(0, chain, p)

LayerSet ==
    \E i \in Leaves, p \in ChainPaths, x \in ChainValues :
        CallSet(i, Leaf(i), p, x, FALSE)

LayerDelete == \E i \in Leaves, p \in ChainPaths : CallDelete(i, Leaf(i), p)

NextChain == ChainGet \/ ChainSet \/ ChainDelete \/ LayerSet \/ LayerDelete

SpecChain == InitChain /\ [][NextChain]_vars

(***************************************************************************)
(* SpecStore: the JsonDelver flyweight.  disk maps the real files to their *)
(* content, links the symbolic links to their targets; extant is the class *)
(* registry __EXTANT, inst the attributes of the JsonDelvers created so    *)
(* far, whose data and readonly are data[i] and readonly[i].               *)
(***************************************************************************)
Invalid == [t |-> "invalid", v |-> 0]
NoObject == [t |-> "noobject", v |-> 0]

F1 == <<"f", "1">>
F2 == <<"f", "2">>
Bad == <<"b", "a", "d">>
Ln == <<"l", "n">>
Ln2 == <<"l", "n", "2">>
Gone == <<"g", "o", "n", "e">>
Nowhere == <<"n", "o">>

StoreFiles ==
    (F1 :> Obj1("a", Num(1))) @@ (F2 :> List(<<Num(1)>>)) @@ (Bad :> Invalid)

StoreLinks == (Ln :> F1) @@ (Ln2 :> Ln) @@ (Gone :> Nowhere)

StoreNames == { F1, F2, Bad, Ln, Ln2, Gone }

StorePaths == { P0, P1("a") }

StoreValues == { Num(7) }

RECURSIVE RealPath(_)
\* Path(path).resolve(): the file a name denotes once its links are followed.
RealPath(path) == IF path \in DOMAIN links THEN RealPath(links[path]) ELSE path

\* cache_key keyed by the path as given, its links not followed.
JsonDelver_cache_key_m(path) ==
    IF RealPath(path) \notin DOMAIN disk
    THEN [e |-> "UnreadableFileError", key |-> <<>>]
    ELSE [e |-> "ok", key |-> path]

\* JsonDelver.cache_key
JsonDelver_cache_key(path) ==
    IF RealPath(path) \notin DOMAIN disk
    THEN [e |-> "UnreadableFileError", key |-> <<>>]
    ELSE [e |-> "ok", key |-> RealPath(path)]

\* The object __new__ hands to __init__: the registered instance of the
\* key, or a new object, which is the first unused instance number.
JsonDelver___new__(path) ==
    LET ck == JsonDelver_cache_key(path)
    IN IF ck.e # "ok" THEN [e |-> ck.e, obj |-> 0]
       ELSE IF ck.key \in DOMAIN extant THEN [e |-> "ok", obj |-> extant[ck.key]]
       ELSE [e |-> "ok", obj |-> CHOOSE i \in Leaves \ DOMAIN inst :
                                     \A j \in Leaves \ DOMAIN inst : i <= j]

JsonDelver__load(path) ==
    IF disk[RealPath(path)].t = "invalid"
    THEN [e |-> "InvalidFileError", data |-> Invalid]
    ELSE [e |-> "ok", data |-> disk[RealPath(path)]]

\* A load that hands out the registered instance whatever flag is asked for.
Load_m(path, ro) ==
    /\ steps > 0
    /\ steps' = steps - 1
    /\ UNCHANGED <<chain, cds, disk, links>>
    /\ LET n == JsonDelver___new__(path)
           Done(e, who) ==
               last' = Call("load", 0, path, Null, Null, "first", ro, e, Null, who)
       IN IF n.e # "ok"
          THEN Done(n.e, 0) /\ UNCHANGED <<heap, data, readonly, extant, inst>>
          ELSE IF n.obj \in DOMAIN inst /\ inst[n.obj].initialized
          THEN /\ Done("ok", n.obj)
               /\ UNCHANGED <<heap, data, readonly, extant, inst>>
          ELSE LET l == JsonDelver__load(path)
                   a == Alloc(heap, l.data)
               IN IF l.e # "ok"
                  THEN Done(l.e, 0) /\ UNCHANGED <<heap, data, readonly, extant, inst>>
                  ELSE /\ Room(Size(l.data))
                       /\ heap' = a.h
                       /\ data' = [data EXCEPT ![n.obj] = a.val]
                       /\ readonly' = [readonly EXCEPT ![n.obj] = ro]
                       /\ extant' = (JsonDelver_cache_key(path).key :> n.obj) @@ extant
                       /\ inst' = (n.obj :> [filename |-> path, initialized |-> TRUE]) @@ inst
                       /\ Done("ok", n.obj)

\* JsonDelver(path, readonly=ro) by the caller: __new__, then __init__ on
\* the object it returned.
Load(path, ro) ==
    /\ steps > 0
    /\ steps' = steps - 1
    /\ UNCHANGED <<chain, cds, disk, links>>
    /\ LET n == JsonDelver___new__(path)
           Done(e, who) ==
               last' = Call("load", 0, path, Null, Null, "first", ro, e, Null, who)
       IN IF n.e # "ok"
          THEN Done(n.e, 0) /\ UNCHANGED <<heap, data, readonly, extant, inst>>
          ELSE IF n.obj \in DOMAIN inst /\ inst[n.obj].initialized
          THEN /\ Done(IF ro # readonly[n.obj] THEN "InitializationConflict" ELSE "ok",
                       IF ro # readonly[n.obj] THEN 0 ELSE n.obj)
               /\ UNCHANGED <<heap, data, readonly, extant, inst>>
          ELSE LET l == JsonDelver__load(path)
                   a == Alloc(heap, l.data)
               IN IF l.e # "ok"
                  THEN Done(l.e, 0) /\ UNCHANGED <<heap, data, readonly, extant, inst>>
                  ELSE /\ Room(Size(l.data))
                       /\ heap' = a.h
                       /\ data' = [data EXCEPT ![n.obj] = a.val]
                       /\ readonly' = [readonly EXCEPT ![n.obj] = ro]
                       /\ extant' = (JsonDelver_cache_key(path).key :> n.obj) @@ extant
                       /\ inst' = (n.obj :> [filename |-> path, initialized |-> TRUE]) @@ inst
                       /\ Done("ok", n.obj)

\* delver.write() by the caller: the file is truncated when it is opened,
\* and json.dump writes nothing before it rejects the sentinel.
JsonDelver_write(i) ==
    IF readonly[i] THEN [e |-> "ReadonlyError", disk |-> disk]
    ELSE IF data[i].t = "sentinel"
    THEN [e |-> "TypeError", disk |-> [disk EXCEPT ![RealPath(inst[i].filename)] = Invalid]]
    ELSE [e |-> "ok",
          disk |-> [disk EXCEPT ![RealPath(inst[i].filename)] = Tree(heap, data[i])]]

Write(i) ==
    /\ steps > 0
    /\ steps' = steps - 1
    /\ disk' = JsonDelver_write(i).disk
    /\ last' = Call("write", i, P0, Null, Null, "first", FALSE, JsonDelver_write(i).e, Null, 0)
    /\ UNCHANGED <<heap, data, readonly, chain, cds, links, extant, inst>>

\* ChainedDelver(JsonDelver(p1), JsonDelver(p2)) by the caller, p1 and p2
\* paths of registered files and each load with the flag of its instance,
\* so that the loads hand out the registered instances and change nothing.
\* The call's val lists the two paths.
Chain(p1, p2) ==
    /\ steps > 0
    /\ steps' = steps - 1
    /\ JsonDelver_cache_key(p1).e = "ok" /\ JsonDelver_cache_key(p1).key \in DOMAIN extant
    /\ JsonDelver_cache_key(p2).e = "ok" /\ JsonDelver_cache_key(p2).key \in DOMAIN extant
    /\ LET o == ChainedDelver___init__(<<Leaf(JsonDelver___new__(p1).obj),
                                         Leaf(JsonDelver___new__(p2).obj)>>)
       IN /\ chain' = IF o.e = "ok" THEN o.chain ELSE chain
          /\ last' = Call("chain", 0, P0, List(<<Str(p1), Str(p2)>>), Null, "first",
                           FALSE, o.e, Null, 0)
    /\ UNCHANGED <<heap, data, readonly, cds, disk, links, extant, inst>>

InitStore ==
    /\ heap = EmptyHeap
    /\ data = [i \in Leaves |-> NoObject]
    /\ readonly = [i \in Leaves |-> FALSE]
    /\ chain = ChainedDelver(<<>>)
    /\ disk = StoreFiles
    /\ links = StoreLinks
    /\ extant = <<>>
    /\ inst = <<>>
    /\ cds = <<>>
    /\ last = Call("none", 0, P0, Null, Null, "first", FALSE, "ok", Null, 0)
    /\ steps = MaxStoreSteps

StoreLoad == \E path \in StoreNames, ro \in BOOLEAN : Load(path, ro)

StoreSet ==
    \E i \in DOMAIN inst, p \in StorePaths, x \in StoreValues :
        CallSet(i, Leaf(i), p, x, FALSE)

StoreDelete == \E i \in DOMAIN inst, p \in StorePaths : CallDelete(i, Leaf(i), p)

StoreWrite == \E i \in DOMAIN inst : Write(i)

StoreChain == \E p1, p2 \in StoreNames : Chain(p1, p2)

NextStore == StoreLoad \/ StoreSet \/ StoreDelete \/ StoreWrite \/ StoreChain

SpecStore == InitStore /\ [][NextStore]_vars

(***************************************************************************)
(* SpecScope: a DataDelver, and the view a caller obtained from it by the  *)
(* cd calls recorded in cds (chain holds that view; with no cd made it is  *)
(* the DataDelver itself).  Calls are made on the view (target 0) and on   *)
(* the DataDelver (target 1).                                              *)
(***************************************************************************)
ScopeTrees ==
    { Obj2("d", Dict((<<>> :> Obj1("x", Num(1))) @@ (K("x") :> Num(2))),
           "l", List(<<Num(5), Num(6)>>)) }

\* The paths handed to cd: the root, a key, a key then the empty key.
CdPaths == { P0, P1("d"), <<"/", "d", "/">>, P1("x") }

ScopePaths == { P0, P1("x"), P1("d"), <<"/">>, P2("q", "r") }

ScopeValues == { Num(7), Obj1("d", Obj1("x", Num(9))) }

ParentPaths == { P0, P1("d"), P2("d", "x") }

\* view.cd(path, readonly=ro) by the caller, who keeps the new view.
CallCd(path, ro) ==
    /\ Len(cds) < MaxCds
    /\ chain' = Cd(chain, path, ro)
    /\ cds' = Append(cds, [path |-> path, ro |-> ro])
    /\ last' = Call("cd", 0, path, Null, Null, "first", ro, "ok", Null, 0)
    /\ UNCHANGED <<heap, data, readonly, disk, links, extant, inst, steps>>

InitScope ==
    \E t \in ScopeTrees, ro \in { {}, {1} } :
        InitObjects(<<t, Dict(EmptyMap), Dict(EmptyMap)>>, ro, Leaf(1))

ScopeCd == \E p \in CdPaths, ro \in BOOLEAN : CallCd(p, ro)

ScopeGet == \E p \in ScopePaths : CallGet(0, chain, p, Dflt, "first")

ScopeSet ==
    \E p \in ScopePaths, x \in ScopeValues, par \in BOOLEAN : CallSet(0, chain, p, x, par)

ScopeDelete == \E p \in ScopePaths : CallDelete(0, chain, p)

ParentSet == \E p \in ParentPaths, x \in ScopeValues : CallSet(1, Leaf(1), p, x, FALSE)

ParentDelete == \E p \in ParentPaths : CallDelete(1, Leaf(1), p)

NextScope ==
    ScopeCd \/ ScopeGet \/ ScopeSet \/ ScopeDelete \/ ParentSet \/ ParentDelete

SpecScope == InitScope /\ [][NextScope]_vars

(***************************************************************************)
(* SpecIter: a DataDelver whose keys need escaping, a view of it, and the  *)
(* callers that iterate them.  chain holds the Delver iterated.            *)
(***************************************************************************)
IterTrees ==
    { Dict((K("m") :> Dict((<<"a", "/", "b">> :> Num(1))
                           @@ (K("a") :> Obj1("b", Num(2)))
                           @@ (<<"~", "1">> :> Num(3))))
           @@ (K("l") :> List(<<Num(7), Str(<<"h", "i">>)>>))
           @@ (K("s") :> Str(<<"h", "i">>))
           @@ (K("n") :> Num(5))
           @@ (K("z") :> Null)) }

IterPaths == { P0, P1("m"), P1("l"), P1("s"), P1("n"), P1("z"), P1("q"), P2("m", "a") }

\* list(delver.items(path)) by the caller, who then asks every view it was
\* given for get(""): the call's res lists the pairs (key, what the view got).
CallItems(path) ==
    /\ steps > 0
    /\ steps' = steps - 1
    /\ LET o == Delver_items(heap, data, chain, path)
           Got(view) ==
               LET g == Get(heap, data, view, P0, Null, "first")
               IN IF g.e = "ok" THEN Tree(g.h, g.r) ELSE [t |-> "raised", v |-> 0]
       IN last' = Call("items", 0, path, Null, Null, "first", FALSE, o.e,
                       List([i \in 1..Len(o.pairs) |->
                                List(<<o.pairs[i].key, Got(o.pairs[i].view)>>)]), 0)
    /\ UNCHANGED <<heap, data, readonly, chain, cds, disk, links, extant, inst>>

\* The Delvers iterated: the DataDelver, and views of it.
IterTarget(n) ==
    CASE n = 1 -> Leaf(1)
      [] n = 2 -> Cd(Leaf(1), P1("m"), FALSE)
      [] n = 3 -> Cd(Leaf(1), P0, FALSE)

InitIter ==
    \E t \in IterTrees, n \in {1, 2, 3} :
        InitObjects(<<t, Dict(EmptyMap), Dict(EmptyMap)>>, {}, IterTarget(n))

IterItems == \E p \in IterPaths : CallItems(p)

IterSet == \E p \in IterPaths, x \in ViewValues : CallSet(1, Leaf(1), p, x, FALSE)

IterDelete == \E p \in IterPaths : CallDelete(1, Leaf(1), p)

NextIter == IterItems \/ IterSet \/ IterDelete

SpecIter == InitIter /\ [][NextIter]_vars

(***************************************************************************)
(* JsonPath (main.py:456-484) and SpecPath, the callers that construct a   *)
(* JsonPath and render it.                                                 *)
(***************************************************************************)
RECURSIVE Join(_, _)
\* sep.join(parts)
Join(parts, sep) ==
    IF parts = <<>> THEN <<>>
    ELSE IF Len(parts) = 1 THEN parts[1]
    ELSE parts[1] \o sep \o Join(Tail(parts), sep)

\* JsonPath.__init__: the components of JsonPath(*components).
JsonPath___init__(components) ==
    IF Len(components) = 0 THEN <<>>
    ELSE IF Len(components) = 1 THEN Tail(SplitSlash(components[1]))
    ELSE [i \in 1..Len(components) |-> Escape(components[i])]

\* JsonPath.__str__
JsonPath___str__(components) == <<"/">> \o Join(components, <<"/">>)

PathChars == { "/", "a", "~", "0", "1" }

\* The texts of at most MaxLen characters.
Texts == UNION { [1..n -> PathChars] : n \in 0..MaxLen }

\* A JSON pointer text: empty, or segments each led by '/', in which every
\* '~' is followed by '0' or '1'.
ValidText(s) ==
    /\ s # <<>> => s[1] = "/"
    /\ \A i \in 1..Len(s) : s[i] = "~" => (i < Len(s) /\ s[i + 1] \in {"0", "1"})

PathArgs ==
    { <<s>> : s \in {x \in Texts : ValidText(x)} }
        \cup { <<>>, <<<<"a">>, <<"/">>>>, <<<<"~">>, <<"a">>>> }

\* str(JsonPath(*args)) by the caller; the call's val lists the arguments.
CallJsonPath(args) ==
    /\ steps > 0
    /\ steps' = steps - 1
    /\ last' = Call("path", 0, P0, List([i \in 1..Len(args) |-> Str(args[i])]), Null,
                    "first", FALSE, "ok",
                    Str(JsonPath___str__(JsonPath___init__(args))), 0)
    /\ UNCHANGED <<heap, data, readonly, chain, cds, disk, links, extant, inst>>

InitPath ==
    InitObjects(<<Dict(EmptyMap), Dict(EmptyMap), Dict(EmptyMap)>>, {}, Leaf(1))

PathStr == \E args \in PathArgs : CallJsonPath(args)

NextPath == PathStr

SpecPath == InitPath /\ [][NextPath]_vars

(***************************************************************************)
(* The vocabulary of the claims: what the specification means by the value *)
(* stored at an address of a tree, by a layer having an address, and by    *)
(* the layers of a chain.  These read trees, never the heap.               *)
(***************************************************************************)
Absent == [t |-> "absent", v |-> 0]

RECURSIVE Eq(_, _)
\* Two trees are equal: the same kind of value, and equal element by element.
Eq(x, y) ==
    /\ x.t = y.t
    /\ CASE x.t = "list" ->
                /\ Len(x.v) = Len(y.v)
                /\ \A i \in 1..Len(x.v) : Eq(x.v[i], y.v[i])
         [] x.t = "dict" ->
                /\ DOMAIN x.v = DOMAIN y.v
                /\ \A k \in DOMAIN x.v : Eq(x.v[k], y.v[k])
         [] OTHER -> x.v = y.v

EqAll(f, g) == \A i \in Leaves : Eq(f[i], g[i])

RECURSIVE At(_, _)
\* The subtree of `tree` at the parsed address `parts`, or Absent.
At(tree, parts) ==
    IF parts = <<>> THEN (IF tree.t = "sentinel" THEN Absent ELSE tree)
    ELSE IF tree.t = "dict"
    THEN IF Head(parts) \in DOMAIN tree.v
         THEN At(tree.v[Head(parts)], Tail(parts)) ELSE Absent
    ELSE IF tree.t = "list"
    THEN IF Head(parts) # <<>> /\ AllDigits(Head(parts)) /\ IntOf(Head(parts)) < Len(tree.v)
         THEN At(tree.v[IntOf(Head(parts)) + 1], Tail(parts)) ELSE Absent
    ELSE Absent

StoredAt(tree, path) == At(tree, Pointer(path).parts)

RECURSIVE LayerAt(_, _, _)
\* What the Delver `ref` stores at `path`, the DataDelvers holding `trees`:
\* a chain stores what its most specific layer that has the address stores.
LayerAt(trees, ref, path) ==
    IF ref.k = "leaf" THEN StoredAt(trees[ref.id], path)
    ELSE IF ref.k = "child" THEN LayerAt(trees, ref.parent, ref.basepath \o path)
    ELSE LET has == {i \in 1..Len(ref.searchpath) :
                        LayerAt(trees, ref.searchpath[i], path).t # "absent"}
         IN IF has = {} THEN Absent
            ELSE LayerAt(trees, ref.searchpath[CHOOSE i \in has : \A j \in has : j <= i],
                         path)

OrDefault(x, default) == IF x.t = "absent" THEN default ELSE x

Now == Trees(heap, data)

\* The layers of the chain under test that have last.path, least specific first.
HavingLayers(trees) ==
    LET sp == chain.searchpath
        RECURSIVE Pick(_)
        Pick(i) ==
            IF i > Len(sp) THEN <<>>
            ELSE (IF LayerAt(trees, sp[i], last.path).t # "absent"
                  THEN <<LayerAt(trees, sp[i], last.path)>> ELSE <<>>) \o Pick(i + 1)
    IN Pick(1)

Reverse(s) == [i \in 1..Len(s) |-> s[Len(s) + 1 - i]]

RECURSIVE LeavesOf(_)
\* The DataDelvers a Delver writes through to.
LeavesOf(ref) ==
    IF ref.k = "leaf" THEN {ref.id}
    ELSE IF ref.k = "child" THEN LeavesOf(ref.parent)
    ELSE UNION {LeavesOf(ref.searchpath[i]) : i \in 1..Len(ref.searchpath)}

RECURSIVE EffectivelyReadonly(_)
\* The Delver rejects a mutation with ReadonlyError.
EffectivelyReadonly(ref) ==
    IF ref.k = "leaf" THEN readonly[ref.id]
    ELSE IF ref.k = "child" THEN ref.readonly \/ EffectivelyReadonly(ref.parent)
    ELSE \E i \in 1..Len(ref.searchpath) : EffectivelyReadonly(ref.searchpath[i])

\* An immediately following get on the target of the last call.
GetNow(ref, default, strategy) ==
    LET o == Get(heap, data, ref, last.path, default, strategy)
    IN IF o.e = "ok" THEN Tree(o.h, o.r) ELSE [t |-> "raised", v |-> 0]

(***************************************************************************)
(* C1.  Set/get round trip on a DataDelver: whenever set(A, V) completes   *)
(* without error, an immediately following get(A) on the same DataDelver   *)
(* returns V, whatever default the get is given.                           *)
(***************************************************************************)
C1_SetGetRoundTrip ==
    (last.op = "set" /\ last.tgt = 1 /\ last.e = "ok")
        => \A df \in Defaults : Eq(GetNow(Leaf(1), df, "first"), last.val)

\* A set of a sequence index that replaced an element by a sequence.
C1_Witness ==
    /\ last.op = "set" /\ last.tgt = 1 /\ last.e = "ok"
    /\ last.path = P2("l", "2") /\ last.val.t = "list"
    /\ ~Eq(Now[1], last.pre[1])

(***************************************************************************)
(* C2.  Delete/get on a DataDelver: for an address A at which get finds a  *)
(* value (a mapping key, a sequence index at any position, the root),      *)
(* after delete(A) completes without error get(A, default) returns the     *)
(* default.                                                                *)
(***************************************************************************)
C2_DeleteThenDefault ==
    (/\ last.op = "delete" /\ last.tgt = 1 /\ last.e = "ok"
     /\ StoredAt(last.pre[1], last.path).t # "absent")
        => Eq(GetNow(Leaf(1), Dflt, "first"), Dflt)

(***************************************************************************)
(* C3.  get with strategy First returns the value stored at A in the most  *)
(* specific layer whose tree has a value at A, whatever that value is, and *)
(* the default exactly when no layer has A.                                *)
(***************************************************************************)
C3_FirstMostSpecific ==
    (last.op = "get" /\ last.tgt = 0 /\ last.strat = "first")
        => /\ last.e = "ok"
           /\ Eq(last.res, OrDefault(LayerAt(last.pre, chain, last.path), last.dflt))

\* The union of the mappings vs, a later one overriding an earlier one.
UnionOf(vs) ==
    Dict([k \in UNION {DOMAIN vs[i].v : i \in 1..Len(vs)} |->
             vs[CHOOSE i \in 1..Len(vs) :
                    /\ k \in DOMAIN vs[i].v
                    /\ \A j \in (i + 1)..Len(vs) : k \notin DOMAIN vs[j].v].v[k]])

RECURSIVE ConcatOf(_)
\* The concatenation of the sequences vs, in order.
ConcatOf(vs) == IF vs = <<>> THEN <<>> ELSE Head(vs).v \o ConcatOf(Tail(vs))

(***************************************************************************)
(* C4.  get with strategy Merge: when every layer that has A holds a       *)
(* mapping there, the result is the union of those mappings, each key      *)
(* with the value of the most specific layer that has it; when every such  *)
(* layer holds a sequence, the concatenation of the sequences from the     *)
(* least to the most specific layer; when no layer has A, the default.     *)
(***************************************************************************)
C4_MergeResult ==
    (last.op = "get" /\ last.tgt = 0 /\ last.strat = "merge")
        => LET vs == HavingLayers(last.pre)
           IN /\ vs = <<>> => (last.e = "ok" /\ Eq(last.res, last.dflt))
              /\ (vs # <<>> /\ \A i \in 1..Len(vs) : vs[i].t = "dict")
                    => (last.e = "ok" /\ Eq(last.res, UnionOf(vs)))
              /\ (vs # <<>> /\ \A i \in 1..Len(vs) : vs[i].t = "list")
                    => (last.e = "ok" /\ Eq(last.res, List(ConcatOf(vs))))

(***************************************************************************)
(* C5.  get with strategy Collect returns the sequence of the values       *)
(* stored at A in every layer that has A, most specific first, one entry   *)
(* per such layer and never unwrapped; the default exactly when no layer   *)
(* has A.                                                                  *)
(***************************************************************************)
C5_CollectResult ==
    (last.op = "get" /\ last.tgt = 0 /\ last.strat = "collect")
        => LET vs == HavingLayers(last.pre)
           IN /\ last.e = "ok"
              /\ Eq(last.res, IF vs = <<>> THEN last.dflt ELSE List(Reverse(vs)))

\* The instances of the registry `reg` whose file is the one `path` denotes.
RegisteredFor(reg, path) ==
    {i \in {reg[k] : k \in DOMAIN reg} : RealPath(inst[i].filename) = RealPath(path)}

(***************************************************************************)
(* C6.  Flyweight identity of JsonDelver: after any sequence of loads,     *)
(* sets, deletes and writes, a load whose path resolves to the file of an  *)
(* already registered instance, with the same readonly flag, returns that  *)
(* very instance and does not re-read the file (the trees and the registry *)
(* are what they were before the load); the registry keeps the instance of *)
(* a key for good and never holds two instances for one real file.         *)
(***************************************************************************)
C6_Flyweight ==
    /\ last.op = "load"
           => \A i \in RegisteredFor(last.reg, last.path) :
                  last.par = readonly[i]
                      => /\ last.e = "ok" /\ last.who = i
                         /\ EqAll(Now, last.pre)
                         /\ extant = last.reg
    /\ \A k \in DOMAIN last.reg : k \in DOMAIN extant /\ extant[k] = last.reg[k]
    /\ \A i, j \in DOMAIN inst :
           RealPath(inst[i].filename) = RealPath(inst[j].filename) => i = j

\* A second load, through a symbolic link, of a file whose instance has
\* been changed in memory and not written back.
C6_Witness ==
    /\ last.op = "load" /\ last.e = "ok"
    /\ last.who \in RegisteredFor(last.reg, last.path)
    /\ last.path # inst[last.who].filename
    /\ ~Eq(Now[last.who], disk[RealPath(last.path)])

(***************************************************************************)
(* C7.  A set through the chain is visible to First at once: when          *)
(* chain.set(A, V) completes without error, chain.get(A) with strategy     *)
(* First returns V, for any V (null included) and whatever the less        *)
(* specific layers hold.                                                   *)
(***************************************************************************)
C7_SetVisibleToFirst ==
    (last.op = "set" /\ last.tgt = 0 /\ last.e = "ok")
        => Eq(GetNow(chain, Null, "first"), last.val)

(***************************************************************************)
(* C8.  A set through the chain touches only the most specific layer:      *)
(* whether it succeeds or fails, the tree of every other layer is what it  *)
(* was before the call.                                                    *)
(***************************************************************************)
C8_SetFrame ==
    (last.op = "set" /\ last.tgt = 0)
        => \A i \in Leaves \ LeavesOf(chain.searchpath[Len(chain.searchpath)]) :
               Eq(Now[i], last.pre[i])

(***************************************************************************)
(* C9.  Atomic refusal of delete: when a layer of the chain (a leaf, a     *)
(* scoped view or a nested resolver) is effectively read-only,             *)
(* chain.delete(A) raises ReadonlyError and every layer's tree is what it  *)
(* was before the call.                                                    *)
(***************************************************************************)
C9_DeleteAtomicRefusal ==
    (last.op = "delete" /\ last.tgt = 0 /\ EffectivelyReadonly(chain))
        => (last.e = "ReadonlyError" /\ EqAll(Now, last.pre))

(***************************************************************************)
(* C10.  Delete everywhere: on a chain with no read-only layer,            *)
(* chain.delete(A) completes without error whichever layers contain A,     *)
(* and afterwards get(A, default) returns the default under First, Merge   *)
(* and Collect.                                                            *)
(***************************************************************************)
C10_DeleteEverywhere ==
    (last.op = "delete" /\ last.tgt = 0 /\ ~EffectivelyReadonly(chain))
        => /\ last.e = "ok"
           /\ \A s \in Strategies : Eq(GetNow(chain, Dflt, s), Dflt)

(***************************************************************************)
(* C11.  MergeError on scalars: chain.get(A, Merge) raises MergeError      *)
(* whenever the value at A of some layer that has A is a scalar, be it the *)
(* least specific such layer's value (the seed) or a later one's.          *)
(***************************************************************************)
C11_MergeErrorOnScalars ==
    (/\ last.op = "get" /\ last.tgt = 0 /\ last.strat = "merge"
     /\ \E i \in 1..Len(HavingLayers(last.pre)) :
            HavingLayers(last.pre)[i].t \notin {"dict", "list"})
        => last.e = "MergeError"

(***************************************************************************)
(* C12.  Read-only is only ever widened: on a view obtained from a         *)
(* DataDelver by cd calls, when the DataDelver or any of the cd calls was  *)
(* read-only, set and delete at any address raise ReadonlyError and leave  *)
(* the tree as it was; and a writable DataDelver never answers a mutation  *)
(* made on itself with ReadonlyError, whatever views were made of it.      *)
(***************************************************************************)
C12_ReadonlyWidened ==
    /\ (/\ last.op \in {"set", "delete"} /\ last.tgt = 0
        /\ (readonly[1] \/ \E i \in 1..Len(cds) : cds[i].ro))
           => (last.e = "ReadonlyError" /\ EqAll(Now, last.pre))
    /\ (last.op \in {"set", "delete"} /\ last.tgt = 1 /\ ~readonly[1])
           => last.e # "ReadonlyError"

\* A set on a view two cd calls away from a writable DataDelver, the first
\* cd read-only and the second not, at an address that exists.
C12_Witness ==
    /\ last.op = "set" /\ last.tgt = 0 /\ last.e = "ReadonlyError"
    /\ ~readonly[1] /\ Len(cds) = 2 /\ cds[1].ro /\ ~cds[2].ro
    /\ cds[1].path = P1("d") /\ cds[2].path = P0 /\ last.path = P1("x")

(***************************************************************************)
(* C13.  Conflicting reload: a load of a file that already has a           *)
(* registered instance, asking for a readonly flag other than that         *)
(* instance's, raises InitializationConflict and leaves the instance's     *)
(* tree, its flag and the registry as they were, so that a load with the   *)
(* original flag would still be handed that same instance.                 *)
(***************************************************************************)
C13_ConflictingReload ==
    last.op = "load"
        => \A i \in RegisteredFor(last.reg, last.path) :
               last.par # last.flags[i]
                   => /\ last.e = "InitializationConflict"
                      /\ EqAll(Now, last.pre)
                      /\ readonly = last.flags
                      /\ extant = last.reg
                      /\ JsonDelver___new__(last.path).obj = i
                      /\ inst[i].initialized

\* A conflicting load through a symbolic link of an instance that was
\* loaded by its file name.
C13_Witness ==
    /\ last.op = "load" /\ last.e = "InitializationConflict"
    /\ last.path = Ln2
    /\ \E i \in RegisteredFor(last.reg, last.path) :
           inst[i].filename = F1 /\ last.par /\ ~readonly[i]

\* The JsonDelvers i and j wrap one real file.
SameFile(i, j) == RealPath(inst[i].filename) = RealPath(inst[j].filename)

(***************************************************************************)
(* C14.  Duplicate-free chains: ChainedDelver(a, b), a and b obtained by   *)
(* loads, raises DuplicateInChainError when a and b wrap the same real     *)
(* file (the same path loaded twice, or a path and a symbolic link to it), *)
(* so the layers of every chain constructed wrap pairwise distinct files.  *)
(***************************************************************************)
C14_DuplicateFreeChains ==
    /\ last.op = "chain"
           => (RealPath(last.val.v[1].v) = RealPath(last.val.v[2].v)
                  => last.e = "DuplicateInChainError")
    /\ \A a, b \in 1..Len(chain.searchpath) :
           a < b => ~SameFile(chain.searchpath[a].id, chain.searchpath[b].id)

\* A rejected construction from a file and a link to a link to it.
C14_Witness ==
    /\ last.op = "chain" /\ last.e = "DuplicateInChainError"
    /\ last.val.v[1].v = F1 /\ last.val.v[2].v = Ln2

\* get(path, default) on the Delver `ref` now returns the default.
GivesDefault(ref, path, default) ==
    LET o == Get(heap, data, ref, path, default, "first")
    IN o.e = "ok" /\ Eq(Tree(o.h, o.r), default)

\* Every get on DataDelver 1, at the root and at any other valid address,
\* returns the default it is given.
AllDefault ==
    \A p \in {q \in ViewPaths : Pointer(q).e = "ok"}, df \in Defaults :
        GivesDefault(Leaf(1), p, df)

(***************************************************************************)
(* C15.  Root delete is destructive: after delete("") completes on a       *)
(* writable DataDelver, get at the root and at every other address returns *)
(* the default, and this stays so after every later call that is not a     *)
(* completed set("", V).                                                   *)
(***************************************************************************)
C15_RootDeleteDestructive ==
    /\ (last.op = "delete" /\ last.tgt = 1 /\ last.path = P0 /\ last.e = "ok")
           => AllDefault
    /\ (/\ last.pre[1].t = "sentinel" /\ last.tgt = 1
        /\ ~(last.op = "set" /\ last.path = P0 /\ last.e = "ok"))
           => AllDefault

\* A set with parents tried on the deleted root, which fails.
C15_Witness ==
    /\ last.pre[1].t = "sentinel" /\ last.tgt = 1
    /\ last.op = "set" /\ last.par /\ last.path = P3("x", "y", "z") /\ last.e # "ok"

\* What the last call would have done had it been made on the Delver `ref`
\* at `path` with `parents`, on the trees as they were before the call: the
\* exception, the result and the trees afterwards.
Replay(ref, path, parents) ==
    LET c == Construct(last.pre)
    IN IF last.op = "get"
       THEN LET o == Get(c.h, c.d, ref, path, last.dflt, last.strat)
            IN [e |-> o.e, res |-> IF o.e = "ok" THEN Tree(o.h, o.r) ELSE Null,
                trees |-> Trees(o.h, c.d)]
       ELSE IF last.op = "set"
       THEN LET a == Alloc(c.h, last.val)
                o == Set(a.h, c.d, ref, path, a.val, parents)
            IN [e |-> o.e, res |-> Null, trees |-> Trees(o.h, o.d)]
       ELSE LET o == Delete(c.h, c.d, ref, path)
            IN [e |-> o.e, res |-> Null, trees |-> Trees(o.h, o.d)]

\* The last call did what the replayed call r does.
SameAs(r) == last.e = r.e /\ Eq(last.res, r.res) /\ EqAll(Now, r.trees)

(***************************************************************************)
(* C16.  Scope composition is associative: a get, set or delete at any     *)
(* address on d.cd(A).cd(B), d a DataDelver, gives the result, the         *)
(* exception and the change of the tree that the same call on d.cd(A + B)  *)
(* gives, for all addresses A and B, those ending in the empty key         *)
(* included.                                                               *)
(***************************************************************************)
C16_CdAssociative ==
    (/\ last.op \in {"get", "set", "delete"} /\ last.tgt = 0
     /\ Len(cds) = 2 /\ ~cds[1].ro /\ ~cds[2].ro)
        => SameAs(Replay(Cd(Leaf(1), cds[1].path \o cds[2].path, FALSE),
                         last.path, last.par))

(***************************************************************************)
(* C17.  Scoped views are live: for the child made by parent.cd(A), parent *)
(* a DataDelver, whatever sets and deletes were made through the parent    *)
(* since, child.get(P, default) returns what parent.get(A + P, default)    *)
(* returns on the tree as it is now.                                       *)
(***************************************************************************)
C17_ViewsAreLive ==
    (last.op = "get" /\ last.tgt = 0 /\ Len(cds) = 1)
        => LET o == Get(heap, data, Leaf(1), cds[1].path \o last.path, last.dflt, "first")
           IN /\ last.e = o.e
              /\ o.e = "ok" => Eq(last.res, Tree(o.h, o.r))

(***************************************************************************)
(* C18.  A ChildDelver is pure delegation with a path prefix: on a         *)
(* writable view with base path B, get(A, default), set(A, V, parents)     *)
(* and delete(A) give the result, the exception and the change of the      *)
(* tree that the same call gives on the parent at B + A with the same      *)
(* other arguments, parents included.                                      *)
(***************************************************************************)
C18_PureDelegation ==
    (/\ last.op \in {"get", "set", "delete"} /\ last.tgt = 0
     /\ chain.k = "child" /\ ~chain.readonly /\ ~readonly[1])
        => SameAs(Replay(chain.parent, chain.basepath \o last.path, last.par))

(***************************************************************************)
(* C19.  Iteration: when the value at A is a sequence, items(A) yields one *)
(* (index, view) pair per element, in order, and when it is a mapping one  *)
(* (key, view) pair per key, and the get("") of each view is the element   *)
(* stored under its key, whatever characters the key holds; when the value *)
(* at A is a scalar (a string, a number, null) or absent, items(A) raises  *)
(* IterationError and yields nothing.                                      *)
(***************************************************************************)
C19_Iteration ==
    last.op = "items"
        => LET x == LayerAt(last.pre, chain, last.path)
           IN IF x.t = "list"
              THEN /\ last.e = "ok"
                   /\ Eq(last.res, List([i \in 1..Len(x.v) |-> List(<<Num(i - 1), x.v[i]>>)]))
              ELSE IF x.t = "dict"
              THEN /\ last.e = "ok"
                   /\ Len(last.res.v) = Cardinality(DOMAIN x.v)
                   /\ \A k \in DOMAIN x.v :
                          \E i \in 1..Len(last.res.v) :
                              Eq(last.res.v[i], List(<<Str(k), x.v[k]>>))
              ELSE last.e = "IterationError" /\ last.res.v = <<>>

(***************************************************************************)
(* C20.  JsonPath round trip: for every valid pointer text s, the empty    *)
(* text (the root) included, str(JsonPath(s)) is s.                        *)
(***************************************************************************)
C20_PathRoundTrip ==
    (last.op = "path" /\ Len(last.val.v) = 1)
        => last.res.v = last.val.v[1].v

(***************************************************************************)
(* C21.  Reads are pure: a get, on a DataDelver, on a view of one, or on a *)
(* chain under any strategy (first, merge, collect), whether it returns or *)
(* raises, leaves the tree of every layer what it was before the call.     *)
(***************************************************************************)
C21_ReadsArePure ==
    last.op = "get" => EqAll(Now, last.pre)

====
